---- MODULE Spec2Model ----
(***************************************************************************)
(* Baccarat (punto banco): the card, shoe and hand arithmetic and the      *)
(* round engine (class Game) of baccarat.py, as a state machine.           *)
(*                                                                         *)
(* A card is a record [rank, suit].  Ranks are numbered by their place in  *)
(* RANKS: ace is 1, the pip cards 2..10 are themselves, jack, queen and    *)
(* king are 11, 12 and 13.  The absent hand (None) is the empty sequence:  *)
(* a Hand object always holds at least two cards.                          *)
(***************************************************************************)
EXTENDS Integers, Sequences, FiniteSets, Bags, TLC

(***************************************************************************)
(* Bounds of the model.                                                    *)
(***************************************************************************)
\* The cards of one deck that add_decks puts in the shoe: the first DeckSize
\* cards in the order add_decks builds them (hearts ace, hearts 2, ...).
DeckSize == 4
\* The most players add_player is called for.
MaxPlayers == 2
\* The largest balance with which a player still places bets.
MaxBalance == 1
\* The cards of one deck when the shoe is modelled as a list on its own.
ListDeckSize == 3
\* The largest num_cards asked of draw_cards on its own.
MaxDraw == 4

(***************************************************************************)
(* Card                                                                    *)
(***************************************************************************)
ACE == 1
JACK == 11
QUEEN == 12
KING == 13

SUITS == <<"hearts", "spades", "clubs", "diamonds">>
RANKS == <<ACE, 2, 3, 4, 5, 6, 7, 8, 9, 10, JACK, QUEEN, KING>>

Card(rank, suit) == [rank |-> rank, suit |-> suit]

\* Card._value, set by Card.__init__
CardValue(card) ==
    IF card.rank \in 2..9 THEN card.rank
    ELSE IF card.rank = ACE THEN 1
    ELSE 0

\* Card.__str__: "<rank> of <suit>"
CardStr(card) == <<card.rank, "of", card.suit>>

\* __add__ without the reduction modulo 10.
CardAddUnreduced(card, other) == CardValue(card) + other

\* Card.__add__ (and __radd__): (self._value + other) % 10
CardAdd(card, other) == (CardValue(card) + other) % 10

(***************************************************************************)
(* Shoe                                                                    *)
(*                                                                         *)
(* add_decks ends with random.shuffle and draw_cards pops the last card of *)
(* the list.  Nothing reads the order of the list but that pop, so the     *)
(* shoe is kept as the bag of its cards and a pop takes any card of the    *)
(* bag: the orders the shuffle can produce are exactly the orders in which *)
(* the cards can come out.                                                 *)
(***************************************************************************)
\* The cards one pass of the loops of add_decks appends for one deck,
\* suit by suit and rank by rank.
FullDeck ==
    [k \in 1..(Len(SUITS) * Len(RANKS)) |->
        Card(RANKS[((k - 1) % Len(RANKS)) + 1],
             SUITS[((k - 1) \div Len(RANKS)) + 1])]

\* That deck, cut to the model's DeckSize.
OneDeck == SubSeq(FullDeck, 1, DeckSize)

\* add_decks appending one deck whatever num_decks is.
DecksOnce(num_decks) ==
    [c \in {OneDeck[k] : k \in 1..(IF num_decks > 0 THEN Len(OneDeck) ELSE 0)}
        |-> 1]

\* The cards the loops of add_decks append for num_decks decks.
Decks(num_decks) ==
    [c \in {OneDeck[k] : k \in 1..(IF num_decks > 0 THEN Len(OneDeck) ELSE 0)}
        |-> num_decks]

\* Shoe.add_decks(): appends self._num_decks decks and shuffles the list.
AddDecks(cards, num_decks) == cards (+) Decks(num_decks)

\* A pop that hands out the card and leaves it in the shoe as well.
PopKeeping(cards) ==
    {[card |-> c, cards |-> cards] : c \in BagToSet(cards)}

\* self._cards.pop() on the shuffled list: the card and the cards left.
Pop(cards) ==
    {[card |-> c, cards |-> cards (-) SetToBag({c})] : c \in BagToSet(cards)}

\* Shoe.draw_cards(num_cards): the possible outcomes, each the cards drawn
\* in the order drawn, the cards left and the number of refills made.
RECURSIVE DrawCards(_, _, _)
DrawCards(cards, num_decks, num_cards) ==
    IF num_cards = 0
    THEN {[drawn |-> <<>>, cards |-> cards, refills |-> 0]}
    ELSE LET empty == BagCardinality(cards) = 0
             pool == IF empty THEN AddDecks(cards, num_decks) ELSE cards
         IN  UNION {
               {[drawn |-> <<p.card>> \o r.drawn,
                 cards |-> r.cards,
                 refills |-> (IF empty THEN 1 ELSE 0) + r.refills] :
                    r \in DrawCards(p.cards, num_decks, num_cards - 1)} :
               p \in Pop(pool)}

(***************************************************************************)
(* Hand, Punto, Banco                                                      *)
(***************************************************************************)
None == <<>>

\* Hand.value: sum(self._cards), which folds Card.__radd__ from 0.
RECURSIVE HandValue(_)
HandValue(hand) ==
    IF Len(hand) = 0 THEN 0
    ELSE CardAdd(hand[Len(hand)], HandValue(SubSeq(hand, 1, Len(hand) - 1)))

\* add_cards putting the new cards in front of the hand.
AddCardsInFront(hand, cs) == cs \o hand

\* Hand.add_cards
AddCards(hand, cs) == hand \o cs

\* Hand.is_natural counting a nine only.
HandIsNaturalNineOnly(hand) ==
    Len(hand) = 2 /\ 8 < HandValue(hand) /\ HandValue(hand) <= 9

\* Hand.is_natural
HandIsNatural(hand) ==
    Len(hand) = 2 /\ 8 <= HandValue(hand) /\ HandValue(hand) <= 9

\* Punto.draw_third without the test of the number of cards.
PuntoDrawThirdAnyLength(hand) ==
    0 <= HandValue(hand) /\ HandValue(hand) <= 5

\* Punto.draw_third
PuntoDrawThird(hand) ==
    Len(hand) = 2 /\ 0 <= HandValue(hand) /\ HandValue(hand) <= 5

\* third_card_rules with the eight left in the row of 3.
ThirdCardRulesWithEight(v) ==
    CASE v = 3 -> {0, 1, 2, 3, 4, 5, 6, 7, 8, 9}
      [] v = 4 -> {2, 3, 4, 5, 6, 7}
      [] v = 5 -> {4, 5, 6, 7}
      [] v = 6 -> {6, 7}

\* third_card_rules of Banco.draw_third
ThirdCardRules(v) ==
    CASE v = 3 -> {0, 1, 2, 3, 4, 5, 6, 7, 9}
      [] v = 4 -> {2, 3, 4, 5, 6, 7}
      [] v = 5 -> {4, 5, 6, 7}
      [] v = 6 -> {6, 7}

\* Banco.draw_third drawing on 3..6 whatever the third card of Punto counts.
BancoDrawThirdOnAnyThird(hand, player_third) ==
    IF Len(hand) = 2
    THEN IF player_third # None
         THEN 0 <= HandValue(hand) /\ HandValue(hand) <= 6
         ELSE 0 <= HandValue(hand) /\ HandValue(hand) <= 5
    ELSE FALSE

\* Banco.draw_third(player_third): player_third is None or <<card>>, the
\* one-element sequence standing for a Card object (always true in a
\* condition, whatever its value).
BancoDrawThird(hand, player_third) ==
    IF Len(hand) = 2
    THEN IF player_third # None
         THEN IF 0 <= HandValue(hand) /\ HandValue(hand) <= 2
              THEN TRUE
              ELSE IF 3 <= HandValue(hand) /\ HandValue(hand) <= 6
                   THEN CardValue(player_third[1])
                            \in ThirdCardRules(HandValue(hand))
                   ELSE FALSE
         ELSE 0 <= HandValue(hand) /\ HandValue(hand) <= 5
    ELSE FALSE

(***************************************************************************)
(* Game: the round engine                                                  *)
(***************************************************************************)
VARIABLES
    cards,         \* Game._shoe._cards, as a bag
    num_decks,     \* Game._shoe._num_decks
    punto,         \* Game._punto: None or the cards of the Punto hand
    banco,         \* Game._banco: None or the cards of the Banco hand
    game_running,  \* Game._game_running
    players,       \* Game._players: for each player the balance and the bet
    bets_open,     \* Table._bets_open
    last           \* the last call: its name, the error raised, the value
                   \* returned and the cards it drew from the shoe, in order

vars == <<cards, num_decks, punto, banco, game_running, players, bets_open, last>>

\* The fields that only the methods of Table and Player read and write.
table == <<players, bets_open>>

\* A method of Game, Shoe or Hand called on its own: it leaves the players
\* and the flag of the bets alone.
GameStep(A) == A /\ UNCHANGED table

\* The messages of the exceptions the engine raises.
ErrRunning == "Game is running"
ErrNotRunning == "Game is not running."
ErrNatural == "Can't draw third cards when there is a natural."
ErrResultRunning == "Game is running."
ErrNoneType == "AttributeError: 'NoneType' object has no attribute 'value'"
ErrDecksType == "Number of decks must be an integer."
ErrDecksValue == "Number of decks must be positive."
ErrNoHands == "No hands were dealt."

Returned(op, val, drawn) == [op |-> op, err |-> "", val |-> val, drawn |-> drawn]
Raised(op, err) == [op |-> op, err |-> err, val |-> None, drawn |-> <<>>]

\* The arguments tried for num_decks: the integers -1, 0 and 1, and one
\* value that is no integer.
DeckInputs ==
    {[int |-> TRUE, v |-> n] : n \in {-1, 0, 1}} \cup {[int |-> FALSE, v |-> 0]}

\* Game.__init__(num_decks): no hands, no round, a fresh shuffled shoe.
Init ==
    /\ game_running = FALSE
    /\ punto = None
    /\ banco = None
    /\ num_decks \in {n.v : n \in {m \in DeckInputs : m.int /\ m.v >= 1}}
    /\ cards = AddDecks(EmptyBag, num_decks)
    /\ players = <<>>
    /\ bets_open = TRUE
    /\ last = Returned("__init__", None, <<>>)

\* The record of a call, with the argument it was made with.
WithArg(rec, arg) ==
    [op |-> rec.op, err |-> rec.err, val |-> rec.val, drawn |-> rec.drawn,
     arg |-> arg]

\* create_shoe adding the decks to the shoe in place.
CreateShoeOnOldShoe(n) ==
    IF ~n.int
    THEN /\ last' = WithArg(Raised("create_shoe", ErrDecksType), n)
         /\ UNCHANGED <<cards, num_decks, punto, banco, game_running>>
    ELSE IF n.v < 1
    THEN /\ last' = WithArg(Raised("create_shoe", ErrDecksValue), n)
         /\ UNCHANGED <<cards, num_decks, punto, banco, game_running>>
    ELSE /\ num_decks' = n.v
         /\ cards' = AddDecks(cards, n.v)
         /\ last' = WithArg(Returned("create_shoe", None, <<>>), n)
         /\ UNCHANGED <<punto, banco, game_running>>

\* Game.create_shoe(num_decks) with Shoe.__init__
CreateShoe(n) ==
    IF ~n.int
    THEN /\ last' = WithArg(Raised("create_shoe", ErrDecksType), n)
         /\ UNCHANGED <<cards, num_decks, punto, banco, game_running>>
    ELSE IF n.v < 1
    THEN /\ last' = WithArg(Raised("create_shoe", ErrDecksValue), n)
         /\ UNCHANGED <<cards, num_decks, punto, banco, game_running>>
    ELSE /\ num_decks' = n.v
         /\ cards' = AddDecks(EmptyBag, n.v)
         /\ last' = WithArg(Returned("create_shoe", None, <<>>), n)
         /\ UNCHANGED <<punto, banco, game_running>>

\* deal_hands dealing Banco before Punto.
DealHandsBancoFirst ==
    IF game_running
    THEN /\ last' = Raised("deal_hands", ErrRunning)
         /\ UNCHANGED <<cards, num_decks, punto, banco, game_running>>
    ELSE \E r1 \in DrawCards(cards, num_decks, 2) :
         \E r2 \in DrawCards(r1.cards, num_decks, 2) :
            /\ banco' = AddCards(<<>>, r1.drawn)
            /\ punto' = AddCards(<<>>, r2.drawn)
            /\ cards' = r2.cards
            /\ game_running' = TRUE
            /\ last' = Returned("deal_hands", None, r1.drawn \o r2.drawn)
            /\ UNCHANGED num_decks

\* Game.deal_hands
DealHands ==
    IF game_running
    THEN /\ last' = Raised("deal_hands", ErrRunning)
         /\ UNCHANGED <<cards, num_decks, punto, banco, game_running>>
    ELSE \E r1 \in DrawCards(cards, num_decks, 2) :
         \E r2 \in DrawCards(r1.cards, num_decks, 2) :
            /\ punto' = AddCards(<<>>, r1.drawn)
            /\ banco' = AddCards(<<>>, r2.drawn)
            /\ cards' = r2.cards
            /\ game_running' = TRUE
            /\ last' = Returned("deal_hands", None, r1.drawn \o r2.drawn)
            /\ UNCHANGED num_decks

\* is_natural reporting a natural without closing the game.
IsNaturalStaysOpen ==
    IF ~game_running
    THEN /\ last' = Raised("is_natural", ErrNotRunning)
         /\ UNCHANGED <<cards, num_decks, punto, banco, game_running>>
    ELSE LET natural == HandIsNatural(punto) \/ HandIsNatural(banco)
         IN  /\ last' = Returned("is_natural", natural, <<>>)
             /\ UNCHANGED <<cards, num_decks, punto, banco, game_running>>

\* Game.is_natural
IsNatural ==
    IF ~game_running
    THEN /\ last' = Raised("is_natural", ErrNotRunning)
         /\ UNCHANGED <<cards, num_decks, punto, banco, game_running>>
    ELSE LET natural == HandIsNatural(punto) \/ HandIsNatural(banco)
         IN  /\ game_running' = IF natural THEN FALSE ELSE game_running
             /\ last' = Returned("is_natural", natural, <<>>)
             /\ UNCHANGED <<cards, num_decks, punto, banco>>

\* ThirdDraws with the Banco rule asked without Punto's third card.
ThirdDrawsBancoBlind(shoe, decks, p0, b0) ==
    IF PuntoDrawThird(p0)
    THEN UNION {
           LET p == AddCards(p0, r1.drawn)
               rec1 == <<<<"punto", CardStr(p[3])>>>>
           IN  IF BancoDrawThird(b0, None)
               THEN {LET b == AddCards(b0, r2.drawn)
                     IN  [punto |-> p, banco |-> b, cards |-> r2.cards,
                          third_draws |-> rec1 \o <<<<"banco", CardStr(b[3])>>>>,
                          drawn |-> r1.drawn \o r2.drawn] :
                        r2 \in DrawCards(r1.cards, decks, 1)}
               ELSE {[punto |-> p, banco |-> b0, cards |-> r1.cards,
                      third_draws |-> rec1, drawn |-> r1.drawn]} :
           r1 \in DrawCards(shoe, decks, 1)}
    ELSE IF BancoDrawThird(b0, None)
    THEN {LET b == AddCards(b0, r2.drawn)
          IN  [punto |-> p0, banco |-> b, cards |-> r2.cards,
               third_draws |-> <<<<"banco", CardStr(b[3])>>>>,
               drawn |-> r2.drawn] :
             r2 \in DrawCards(shoe, decks, 1)}
    ELSE {[punto |-> p0, banco |-> b0, cards |-> shoe,
           third_draws |-> <<>>, drawn |-> <<>>]}

\* Game.draw_thirds, from third_draws = [] to the last append: the possible
\* outcomes, each the two hands, the cards left in the shoe, third_draws
\* and the cards drawn in the order drawn.
ThirdDraws(shoe, decks, p0, b0) ==
    IF PuntoDrawThird(p0)
    THEN UNION {
           LET p == AddCards(p0, r1.drawn)
               rec1 == <<<<"punto", CardStr(p[3])>>>>
           IN  IF BancoDrawThird(b0, <<p[3]>>)
               THEN {LET b == AddCards(b0, r2.drawn)
                     IN  [punto |-> p, banco |-> b, cards |-> r2.cards,
                          third_draws |-> rec1 \o <<<<"banco", CardStr(b[3])>>>>,
                          drawn |-> r1.drawn \o r2.drawn] :
                        r2 \in DrawCards(r1.cards, decks, 1)}
               ELSE {[punto |-> p, banco |-> b0, cards |-> r1.cards,
                      third_draws |-> rec1, drawn |-> r1.drawn]} :
           r1 \in DrawCards(shoe, decks, 1)}
    ELSE IF BancoDrawThird(b0, None)
    THEN {LET b == AddCards(b0, r2.drawn)
          IN  [punto |-> p0, banco |-> b, cards |-> r2.cards,
               third_draws |-> <<<<"banco", CardStr(b[3])>>>>,
               drawn |-> r2.drawn] :
             r2 \in DrawCards(shoe, decks, 1)}
    ELSE {[punto |-> p0, banco |-> b0, cards |-> shoe,
           third_draws |-> <<>>, drawn |-> <<>>]}

\* draw_thirds without the check for a running game, asking the hands for
\* a natural itself.
DrawThirdsUnguarded ==
    IF punto = None
    THEN /\ last' = Raised("draw_thirds", ErrNoneType)
         /\ UNCHANGED <<cards, num_decks, punto, banco, game_running>>
    ELSE IF HandIsNatural(punto) \/ HandIsNatural(banco)
    THEN /\ game_running' = FALSE
         /\ last' = Raised("draw_thirds", ErrNatural)
         /\ UNCHANGED <<cards, num_decks, punto, banco>>
    ELSE \E o \in ThirdDraws(cards, num_decks, punto, banco) :
            /\ punto' = o.punto
            /\ banco' = o.banco
            /\ cards' = o.cards
            /\ game_running' = FALSE
            /\ last' = Returned("draw_thirds", o.third_draws, o.drawn)
            /\ UNCHANGED num_decks

\* draw_thirds leaving the game running.
DrawThirdsStaysOpen ==
    IF ~game_running
    THEN /\ last' = Raised("draw_thirds", ErrNotRunning)
         /\ UNCHANGED <<cards, num_decks, punto, banco, game_running>>
    ELSE IF HandIsNatural(punto) \/ HandIsNatural(banco)
    THEN /\ game_running' = FALSE
         /\ last' = Raised("draw_thirds", ErrNatural)
         /\ UNCHANGED <<cards, num_decks, punto, banco>>
    ELSE \E o \in ThirdDraws(cards, num_decks, punto, banco) :
            /\ punto' = o.punto
            /\ banco' = o.banco
            /\ cards' = o.cards
            /\ last' = Returned("draw_thirds", o.third_draws, o.drawn)
            /\ UNCHANGED <<num_decks, game_running>>

\* draw_thirds without the check for a natural.
DrawThirdsOverNatural ==
    IF ~game_running
    THEN /\ last' = Raised("draw_thirds", ErrNotRunning)
         /\ UNCHANGED <<cards, num_decks, punto, banco, game_running>>
    ELSE \E o \in ThirdDraws(cards, num_decks, punto, banco) :
            /\ punto' = o.punto
            /\ banco' = o.banco
            /\ cards' = o.cards
            /\ game_running' = FALSE
            /\ last' = Returned("draw_thirds", o.third_draws, o.drawn)
            /\ UNCHANGED num_decks

\* Game.draw_thirds.  The natural check is the call self.is_natural(), which
\* closes the game before draw_thirds raises.
DrawThirds ==
    IF ~game_running
    THEN /\ last' = Raised("draw_thirds", ErrNotRunning)
         /\ UNCHANGED <<cards, num_decks, punto, banco, game_running>>
    ELSE IF HandIsNatural(punto) \/ HandIsNatural(banco)
    THEN /\ game_running' = FALSE
         /\ last' = Raised("draw_thirds", ErrNatural)
         /\ UNCHANGED <<cards, num_decks, punto, banco>>
    ELSE \E o \in ThirdDraws(cards, num_decks, punto, banco) :
            /\ punto' = o.punto
            /\ banco' = o.banco
            /\ cards' = o.cards
            /\ game_running' = FALSE
            /\ last' = Returned("draw_thirds", o.third_draws, o.drawn)
            /\ UNCHANGED num_decks

\* game_result with the two winners exchanged.
GameResultExchanged ==
    /\ last' = IF game_running THEN Raised("game_result", ErrResultRunning)
               ELSE IF punto = None THEN Raised("game_result", ErrNoneType)
               ELSE IF HandValue(punto) > HandValue(banco)
                    THEN Returned("game_result", "banco", <<>>)
               ELSE IF HandValue(punto) < HandValue(banco)
                    THEN Returned("game_result", "punto", <<>>)
               ELSE Returned("game_result", "tie", <<>>)
    /\ UNCHANGED <<cards, num_decks, punto, banco, game_running>>

\* Game.game_result.  With no hands dealt, self._punto is None and reading
\* its value raises AttributeError.
GameResult ==
    /\ last' = IF game_running THEN Raised("game_result", ErrResultRunning)
               ELSE IF punto = None THEN Raised("game_result", ErrNoneType)
               ELSE IF HandValue(punto) > HandValue(banco)
                    THEN Returned("game_result", "punto", <<>>)
               ELSE IF HandValue(punto) < HandValue(banco)
                    THEN Returned("game_result", "banco", <<>>)
               ELSE Returned("game_result", "tie", <<>>)
    /\ UNCHANGED <<cards, num_decks, punto, banco, game_running>>

Next ==
    \/ \E n \in DeckInputs : GameStep(CreateShoe(n))
    \/ GameStep(DealHands)
    \/ GameStep(IsNatural)
    \/ GameStep(DrawThirds)
    \/ GameStep(GameResult)

Spec == Init /\ [][Next]_vars

(***************************************************************************)
(* Game with its read accessors                                            *)
(***************************************************************************)
\* ', '.join of the cards' strings, kept as the sequence of the strings.
CardsStr(hand) == [i \in 1..Len(hand) |-> CardStr(hand[i])]

\* Game.punto_value
PuntoValue ==
    /\ last' = IF punto = None THEN Raised("punto_value", ErrNoHands)
               ELSE Returned("punto_value", HandValue(punto), <<>>)
    /\ UNCHANGED <<cards, num_decks, punto, banco, game_running>>

\* Game.punto_cards
PuntoCards ==
    /\ last' = IF punto = None THEN Raised("punto_cards", ErrNoHands)
               ELSE Returned("punto_cards", CardsStr(punto), <<>>)
    /\ UNCHANGED <<cards, num_decks, punto, banco, game_running>>

\* Game.banco_value
BancoValue ==
    /\ last' = IF banco = None THEN Raised("banco_value", ErrNoHands)
               ELSE Returned("banco_value", HandValue(banco), <<>>)
    /\ UNCHANGED <<cards, num_decks, punto, banco, game_running>>

\* Game.banco_cards
BancoCards ==
    /\ last' = IF banco = None THEN Raised("banco_cards", ErrNoHands)
               ELSE Returned("banco_cards", CardsStr(banco), <<>>)
    /\ UNCHANGED <<cards, num_decks, punto, banco, game_running>>

NextAccess ==
    \/ Next
    \/ GameStep(PuntoValue)
    \/ GameStep(PuntoCards)
    \/ GameStep(BancoValue)
    \/ GameStep(BancoCards)

SpecAccess == Init /\ [][NextAccess]_vars

(***************************************************************************)
(* The hand predicates on their own: any Banco hand of two or three cards, *)
(* of every rank, asked with every third card of Punto or with none.       *)
(***************************************************************************)
\* One card of each rank.
RankCards == {Card(RANKS[i], SUITS[1]) : i \in 1..Len(RANKS)}

\* The hands of two or three cards.
Hands == [1..2 -> RankCards] \cup [1..3 -> RankCards]

Called(op, arg, val) ==
    [op |-> op, err |-> "", val |-> val, drawn |-> <<>>, arg |-> arg]

InitBanco ==
    /\ game_running = FALSE
    /\ punto = None
    /\ banco \in Hands
    /\ num_decks = 1
    /\ cards = EmptyBag
    /\ players = <<>>
    /\ bets_open = TRUE
    /\ last = Returned("__init__", None, <<>>)

\* A call of Banco.draw_third(player_third) on the hand.
CallBancoDrawThird(player_third) ==
    /\ last' = Called("Banco.draw_third", player_third,
                      BancoDrawThird(banco, player_third))
    /\ UNCHANGED <<cards, num_decks, punto, banco, game_running>>

NextBanco ==
    \E t \in {None} \cup {<<c>> : c \in RankCards} :
        GameStep(CallBancoDrawThird(t))

SpecBanco == InitBanco /\ [][NextBanco]_vars

(***************************************************************************)
(* The shoe on its own, as the list it is: draw_cards pops the last        *)
(* element, and the shuffle of add_decks picks one of the orders of the    *)
(* list.                                                                   *)
(***************************************************************************)
\* random.shuffle: every order of the list is a possible outcome.
Shuffle(list) ==
    {[i \in 1..Len(list) |-> list[p[i]]] : p \in Permutations(1..Len(list))}

\* The cards the loops of add_decks append, in the order appended.
RECURSIVE DeckList(_)
DeckList(decks) ==
    IF decks <= 0 THEN <<>>
    ELSE DeckList(decks - 1) \o SubSeq(FullDeck, 1, ListDeckSize)

\* Shoe.add_decks() on the list
AddDecksList(list, decks) == Shuffle(list \o DeckList(decks))

\* draw_cards taking the first card of the list instead of the last.
RECURSIVE DrawCardsListFromFront(_, _, _)
DrawCardsListFromFront(list, decks, num_cards) ==
    IF num_cards = 0
    THEN {[drawn |-> <<>>, cards |-> list, refills |-> <<>>]}
    ELSE LET empty == Len(list) = 0
             pools == IF empty THEN AddDecksList(list, decks) ELSE {list}
         IN  UNION {
               {[drawn |-> <<pool[1]>> \o r.drawn,
                 cards |-> r.cards,
                 refills |-> (IF empty THEN <<[before |-> list, after |-> pool]>>
                              ELSE <<>>) \o r.refills] :
                    r \in DrawCardsListFromFront(SubSeq(pool, 2, Len(pool)),
                                                 decks, num_cards - 1)} :
               pool \in pools}

\* Shoe.draw_cards(num_cards) on the list: the possible outcomes, each the
\* cards drawn in the order drawn, the list left and, for each refill (each
\* "Refilling shoe..." printed), the list before and after add_decks.
RECURSIVE DrawCardsList(_, _, _)
DrawCardsList(list, decks, num_cards) ==
    IF num_cards = 0
    THEN {[drawn |-> <<>>, cards |-> list, refills |-> <<>>]}
    ELSE LET empty == Len(list) = 0
             pools == IF empty THEN AddDecksList(list, decks) ELSE {list}
         IN  UNION {
               {[drawn |-> <<pool[Len(pool)]>> \o r.drawn,
                 cards |-> r.cards,
                 refills |-> (IF empty THEN <<[before |-> list, after |-> pool]>>
                              ELSE <<>>) \o r.refills] :
                    r \in DrawCardsList(SubSeq(pool, 1, Len(pool) - 1),
                                        decks, num_cards - 1)} :
               pool \in pools}

\* A shoe of one deck with any number of its cards already drawn.
InitShoeList ==
    /\ game_running = FALSE
    /\ punto = None
    /\ banco = None
    /\ num_decks = 1
    /\ cards \in {SubSeq(full, 1, k) :
                    full \in AddDecksList(<<>>, num_decks), k \in 0..ListDeckSize}
    /\ players = <<>>
    /\ bets_open = TRUE
    /\ last = Returned("__init__", None, <<>>)

\* A call of Shoe.draw_cards(num_cards).
CallDrawCardsList(num_cards) ==
    \E r \in DrawCardsList(cards, num_decks, num_cards) :
        /\ cards' = r.cards
        /\ last' = [op |-> "draw_cards", err |-> "", val |-> r.drawn,
                    drawn |-> r.drawn, arg |-> num_cards, refills |-> r.refills]
        /\ UNCHANGED <<num_decks, punto, banco, game_running>>

NextShoeList == \E n \in 0..MaxDraw : GameStep(CallDrawCardsList(n))

SpecShoeList == InitShoeList /\ [][NextShoeList]_vars

(***************************************************************************)
(* The shoe on its own, as the cards it holds: built with one deck or      *)
(* more, drawn from card by card, and refilled by add_decks, which is also *)
(* a public method.                                                        *)
(***************************************************************************)
\* The num_decks a shoe is built with.
ShoeDecks == {1, 2}

\* The num_decks passed to add_decks: 0 stands for None and for 0, which
\* "if not num_decks" treats alike.
AddDecksArgs == {-1, 0, 1, 2}

\* Shoe(num_decks) with a valid num_decks.
InitShoe ==
    /\ game_running = FALSE
    /\ punto = None
    /\ banco = None
    /\ num_decks \in ShoeDecks
    /\ cards = AddDecks(EmptyBag, num_decks)
    /\ players = <<>>
    /\ bets_open = TRUE
    /\ last = Returned("__init__", None, <<>>)

\* A call of Shoe.add_decks(num_decks=arg), on a shoe that holds no more
\* cards than a fresh one.
CallAddDecks(arg) ==
    /\ BagCardinality(cards) <= num_decks * DeckSize
    /\ cards' = AddDecks(cards, IF arg = 0 THEN num_decks ELSE arg)
    /\ last' = [op |-> "add_decks", err |-> "", val |-> None, drawn |-> <<>>,
                arg |-> arg, refills |-> 0]
    /\ UNCHANGED <<num_decks, punto, banco, game_running>>

\* A call of Shoe.draw_cards(num_cards).
CallDrawCards(num_cards) ==
    \E r \in DrawCards(cards, num_decks, num_cards) :
        /\ cards' = r.cards
        /\ last' = [op |-> "draw_cards", err |-> "", val |-> r.drawn,
                    drawn |-> r.drawn, arg |-> num_cards, refills |-> r.refills]
        /\ UNCHANGED <<num_decks, punto, banco, game_running>>

NextShoe ==
    \/ \E arg \in AddDecksArgs : GameStep(CallAddDecks(arg))
    \/ \E n \in 0..1 : GameStep(CallDrawCards(n))

SpecShoe == InitShoe /\ [][NextShoe]_vars

(***************************************************************************)
(* Any Punto hand of two or three cards, of every rank, asked for its      *)
(* value and whether it draws a third card.                                *)
(***************************************************************************)
InitPunto ==
    /\ game_running = FALSE
    /\ punto \in Hands
    /\ banco = None
    /\ num_decks = 1
    /\ cards = EmptyBag
    /\ players = <<>>
    /\ bets_open = TRUE
    /\ last = Returned("__init__", None, <<>>)

\* A read of Hand.value on the hand.
CallHandValue ==
    /\ last' = Called("Hand.value", None, HandValue(punto))
    /\ UNCHANGED <<cards, num_decks, punto, banco, game_running>>

\* A call of Punto.draw_third() on the hand.
CallPuntoDrawThird ==
    /\ last' = Called("Punto.draw_third", None, PuntoDrawThird(punto))
    /\ UNCHANGED <<cards, num_decks, punto, banco, game_running>>

NextPunto ==
    \/ GameStep(CallHandValue)
    \/ GameStep(CallPuntoDrawThird)

SpecPunto == InitPunto /\ [][NextPunto]_vars

(***************************************************************************)
(* The third cards over every rank: a round just dealt from the shoe of    *)
(* eight decks a Game is built with by default, part of the way through    *)
(* it, with hands of every value and a card of each rank still to come.    *)
(***************************************************************************)
\* Two-card hands of every first card, with an ace or a ten as the second:
\* every value 0..9 in more than one way.
DealtHands ==
    {<<c, d>> : c \in RankCards, d \in {Card(ACE, SUITS[1]), Card(10, SUITS[1])}}

InitThirds ==
    /\ game_running = TRUE
    /\ punto \in DealtHands
    /\ banco \in DealtHands
    /\ num_decks = 8
    /\ cards = SetToBag(RankCards)
    /\ players = <<>>
    /\ bets_open = TRUE
    /\ last = Returned("deal_hands", None, punto \o banco)

NextThirds == GameStep(DrawThirds)

SpecThirds == InitThirds /\ [][NextThirds]_vars

(***************************************************************************)
(* The shoe replaced before, in and after the first round of a game, with  *)
(* one deck or two and with the invalid arguments.                         *)
(***************************************************************************)
\* The arguments tried for num_decks when the shoe is replaced.
ReplaceInputs == DeckInputs \cup {[int |-> TRUE, v |-> 2]}

\* deal_hands for the first round of the game only.
DealFirstHands == punto = None /\ DealHands

NextReplace ==
    \/ \E n \in ReplaceInputs : GameStep(CreateShoe(n))
    \/ GameStep(DealFirstHands)
    \/ GameStep(DrawThirds)

SpecReplace == Init /\ [][NextReplace]_vars

(***************************************************************************)
(* Player and Table: the players, their bets and the flag of the bets,     *)
(* over the round engine.                                                  *)
(***************************************************************************)
\* The hand_bet of a player with no bet (None).
NoHand == "None"

\* The hands a bet can be on.
BetHands == {"punto", "banco", "tie"}

\* The messages of the exceptions Table and Player raise, and the
\* IndexError of self._players[player_i].
ErrBetsOnTable == "There are some bets on table."
ErrBetsClosed == "A player cannot make a bet after the hands are dealt."
ErrInvalidHand == "Invalid hand"
ErrAmountPositive == "Amount must be positive."
ErrAmountExceeds == "Amount exceeds available balance."
ErrInvalidBet == "Player does not have a valid bet"
ErrBalancePositive == "Balance must be positive."
ErrIndex == "IndexError: list index out of range"

\* Player.__init__
Player(balance) == [balance |-> balance, hand_bet |-> NoHand, amount_bet |-> 0]

\* Player.is_valid_bet
IsValidBet(player) ==
    ~(player.hand_bet \notin BetHands \/ player.amount_bet <= 0)

\* The winnings of Player.win: int(amount * 1), int(amount * 0.95) and
\* int(amount * 8).
Winnings(player) ==
    CASE player.hand_bet = "punto" -> player.amount_bet
      [] player.hand_bet = "banco" -> (player.amount_bet * 95) \div 100
      [] player.hand_bet = "tie" -> player.amount_bet * 8

\* Player.win on a valid bet
Win(player) == Player(player.balance + Winnings(player))

\* Player.lose on a valid bet
Lose(player) == Player(player.balance - player.amount_bet)

\* Table.available_players
AvailablePlayers(ps) == {i \in 1..Len(ps) : ps[i].balance > 0}

\* Table.valid_bets
ValidBets(ps) == {i \in AvailablePlayers(ps) : IsValidBet(ps[i])}

\* What Game.game_result does when bet_result calls it.
GameResultOutcome ==
    IF game_running THEN Raised("game_result", ErrResultRunning)
    ELSE IF punto = None THEN Raised("game_result", ErrNoneType)
    ELSE IF HandValue(punto) > HandValue(banco)
         THEN Returned("game_result", "punto", <<>>)
    ELSE IF HandValue(punto) < HandValue(banco)
         THEN Returned("game_result", "banco", <<>>)
    ELSE Returned("game_result", "tie", <<>>)

\* Table.__init__(num_decks): bets open, then Game.__init__.
InitTable ==
    /\ game_running = FALSE
    /\ punto = None
    /\ banco = None
    /\ num_decks = 1
    /\ cards = AddDecks(EmptyBag, num_decks)
    /\ players = <<>>
    /\ bets_open = TRUE
    /\ last = Returned("__init__", None, <<>>)

\* Table.deal_hands(): the flag is cleared before Game.deal_hands runs.
TableDealHands ==
    IF ~bets_open
    THEN /\ last' = Raised("deal_hands", ErrBetsOnTable)
         /\ UNCHANGED <<cards, num_decks, punto, banco, game_running, table>>
    ELSE /\ bets_open' = FALSE
         /\ DealHands
         /\ UNCHANGED players

\* Table.add_player(balance), for an integer balance.
AddPlayer(balance) ==
    /\ Len(players) < MaxPlayers
    /\ IF balance < 1
       THEN /\ last' = WithArg(Raised("add_player", ErrBalancePositive), <<balance>>)
            /\ UNCHANGED players
       ELSE /\ players' = Append(players, Player(balance))
            /\ last' = WithArg(Returned("add_player", None, <<>>), <<balance>>)
    /\ UNCHANGED <<cards, num_decks, punto, banco, game_running, bets_open>>

\* bet without the test of the flag of the bets.
BetAnyTime(i, hand_bet, amount_bet) ==
    /\ i \in 1..Len(players) => players[i].balance <= MaxBalance
    /\ LET arg == <<i, hand_bet, amount_bet>>
           fail(err) == WithArg(Raised("bet", err), arg)
       IN  IF i \notin 1..Len(players)
           THEN /\ last' = fail(ErrIndex)
                /\ UNCHANGED players
           ELSE IF hand_bet \notin BetHands
           THEN /\ last' = fail(ErrInvalidHand)
                /\ UNCHANGED players
           ELSE IF amount_bet < 1
           THEN /\ last' = fail(ErrAmountPositive)
                /\ players' = [players EXCEPT ![i].hand_bet = hand_bet]
           ELSE IF amount_bet > players[i].balance
           THEN /\ last' = fail(ErrAmountExceeds)
                /\ players' = [players EXCEPT ![i].hand_bet = hand_bet]
           ELSE /\ last' = WithArg(Returned("bet", None, <<>>), arg)
                /\ players' = [players EXCEPT ![i].hand_bet = hand_bet,
                                              ![i].amount_bet = amount_bet]
    /\ UNCHANGED <<cards, num_decks, punto, banco, game_running, bets_open>>

\* Table.bet(player_i, hand_bet, amount_bet), for an integer amount and the
\* player at position i (player_i + 1); players richer than MaxBalance
\* place no bets.
Bet(i, hand_bet, amount_bet) ==
    /\ i \in 1..Len(players) => players[i].balance <= MaxBalance
    /\ LET arg == <<i, hand_bet, amount_bet>>
           fail(err) == WithArg(Raised("bet", err), arg)
       IN  IF ~bets_open
           THEN /\ last' = fail(ErrBetsClosed)
                /\ UNCHANGED players
           ELSE IF i \notin 1..Len(players)
           THEN /\ last' = fail(ErrIndex)
                /\ UNCHANGED players
           ELSE IF hand_bet \notin BetHands
           THEN /\ last' = fail(ErrInvalidHand)
                /\ UNCHANGED players
           ELSE IF amount_bet < 1
           THEN /\ last' = fail(ErrAmountPositive)
                /\ players' = [players EXCEPT ![i].hand_bet = hand_bet]
           ELSE IF amount_bet > players[i].balance
           THEN /\ last' = fail(ErrAmountExceeds)
                /\ players' = [players EXCEPT ![i].hand_bet = hand_bet]
           ELSE /\ last' = WithArg(Returned("bet", None, <<>>), arg)
                /\ players' = [players EXCEPT ![i].hand_bet = hand_bet,
                                              ![i].amount_bet = amount_bet]
    /\ UNCHANGED <<cards, num_decks, punto, banco, game_running, bets_open>>

\* Table.bet_result(player_i) for the player at position i.
BetResult(i) ==
    /\ LET fail(err) == WithArg(Raised("bet_result", err), <<i>>)
           result == GameResultOutcome
       IN  IF i \notin 1..Len(players)
           THEN /\ last' = fail(ErrIndex)
                /\ UNCHANGED table
           ELSE IF result.err # ""
           THEN /\ last' = fail(result.err)
                /\ UNCHANGED table
           ELSE IF ~IsValidBet(players[i])
           THEN /\ last' = fail(ErrInvalidBet)
                /\ UNCHANGED table
           ELSE LET won == players[i].hand_bet = result.val
                    after == [players EXCEPT ![i] = IF won THEN Win(players[i])
                                                   ELSE Lose(players[i])]
                IN  /\ players' = after
                    /\ bets_open' = (bets_open \/ ValidBets(after) = {})
                    /\ last' = WithArg(Returned("bet_result",
                                    <<IF won THEN "win" ELSE "lose", after[i].balance>>,
                                    <<>>), <<i>>)
    /\ UNCHANGED <<cards, num_decks, punto, banco, game_running>>

NextTable ==
    \/ TableDealHands
    \/ \E balance \in {0, 1} : AddPlayer(balance)
    \/ \E i \in 1..MaxPlayers, h \in {"punto", "hearts"}, a \in {0, 1} :
          Bet(i, h, a)
    \/ \E i \in 1..MaxPlayers : BetResult(i)
    \/ GameStep(IsNatural)
    \/ GameStep(DrawThirds)

SpecTable == InitTable /\ [][NextTable]_vars

(***************************************************************************)
(* Properties                                                              *)
(***************************************************************************)
\* A call of op has just returned without an error.
Succeeded(op) == last.op = op /\ last.err = ""

\* C1: a draw_thirds call on a running round with no natural returns, and
\* has drawn one card into Punto iff Punto.draw_third() held, and then one card
\* into Banco iff Banco.draw_third(Punto's new third card) held; when Punto
\* did not draw, Banco drew one card iff Banco.draw_third() held.  The list
\* returned has at most one Punto record and one Banco record, the Punto
\* record first, each naming the card appended to that hand, and the game is
\* closed afterwards.
C1_ThirdsSequence ==
    [][(/\ game_running
        /\ ~HandIsNatural(punto)
        /\ ~HandIsNatural(banco)
        /\ last'.op = "draw_thirds") =>
        LET recs == last'.val
            d == last'.drawn
        IN  /\ last'.err = ""
            /\ ~game_running'
            /\ IF PuntoDrawThird(punto)
               THEN /\ punto' = punto \o <<d[1]>>
                    /\ recs[1] = <<"punto", CardStr(punto'[3])>>
                    /\ IF BancoDrawThird(banco, <<punto'[3]>>)
                       THEN /\ Len(d) = 2
                            /\ banco' = banco \o <<d[2]>>
                            /\ Len(recs) = 2
                            /\ recs[2] = <<"banco", CardStr(banco'[3])>>
                       ELSE /\ Len(d) = 1
                            /\ banco' = banco
                            /\ Len(recs) = 1
               ELSE /\ punto' = punto
                    /\ IF BancoDrawThird(banco, None)
                       THEN /\ Len(d) = 1
                            /\ banco' = banco \o <<d[1]>>
                            /\ recs = <<<<"banco", CardStr(banco'[3])>>>>
                       ELSE /\ d = <<>>
                            /\ banco' = banco
                            /\ recs = <<>>]_vars

\* Punto drew a third card that makes Banco stand although Banco's two
\* cards alone would have drawn.
C1_Witness ==
    /\ Succeeded("draw_thirds")
    /\ Len(punto) = 3
    /\ Len(banco) = 2
    /\ Len(last.val) = 1
    /\ BancoDrawThird(banco, None)

\* C2: Banco.draw_third agrees with the reference table.  With a third card
\* of Punto: Banco value 0-2 draws, 3 draws unless the card counts 8, 4 draws
\* iff it counts 2..7, 5 iff 4..7, 6 iff 6..7, 7 and above never.  With no
\* third card: draws iff the Banco value is in 0..5.  A Banco hand of three
\* cards never draws.
C2_BancoTable ==
    last.op = "Banco.draw_third" =>
        LET v == HandValue(banco)
            t == last.arg
            pv == CardValue(t[1])
        IN  last.val <=>
              /\ Len(banco) = 2
              /\ IF t # None
                 THEN \/ v \in 0..2
                      \/ v = 3 /\ pv # 8
                      \/ v = 4 /\ pv \in 2..7
                      \/ v = 5 /\ pv \in 4..7
                      \/ v = 6 /\ pv \in 6..7
                 ELSE v \in 0..5

\* Banco holds 3 and Punto's third card counts 8: Banco stands.
C2_Witness ==
    /\ last.op = "Banco.draw_third"
    /\ Len(banco) = 2
    /\ HandValue(banco) = 3
    /\ last.arg # None
    /\ CardValue(last.arg[1]) = 8
    /\ last.val = FALSE

\* The first two cards of the hand make 8 or 9.
NaturalDealt(hand) ==
    hand # None /\ (CardValue(hand[1]) + CardValue(hand[2])) % 10 \in {8, 9}

\* C3: no third card is drawn over a natural.  Whenever the first two cards
\* of Punto or of Banco make 8 or 9, both hands hold exactly 2 cards, and a
\* draw_thirds call on such a round fails and draws nothing from the shoe.
C3_NoThirdOverNatural ==
    /\ [](NaturalDealt(punto) \/ NaturalDealt(banco)
            => Len(punto) = 2 /\ Len(banco) = 2)
    /\ [][((NaturalDealt(punto) \/ NaturalDealt(banco))
              /\ last'.op = "draw_thirds")
            => /\ last'.err # ""
               /\ UNCHANGED <<cards, punto, banco>>]_vars

\* draw_thirds was refused on a running round because Banco held a natural.
C3_Witness ==
    /\ last.op = "draw_thirds"
    /\ last.err = ErrNatural
    /\ NaturalDealt(banco)
    /\ ~NaturalDealt(punto)
    /\ Len(punto) = 2
    /\ Len(banco) = 2

\* C4: is_natural on a running round returns true iff Punto or Banco holds
\* exactly 2 cards worth 8 or 9; when it returns true the game is closed,
\* when it returns false the game stays running; in neither case do the
\* hands or the shoe change.  When no round is running it raises the
\* "not running" GameError and changes nothing.
C4_CheckNatural ==
    [][last'.op = "is_natural" =>
        IF game_running
        THEN /\ last'.err = ""
             /\ last'.val <=>
                   \/ Len(punto) = 2 /\ HandValue(punto) \in {8, 9}
                   \/ Len(banco) = 2 /\ HandValue(banco) \in {8, 9}
             /\ game_running' = ~last'.val
             /\ UNCHANGED <<cards, num_decks, punto, banco>>
        ELSE /\ last'.err = ErrNotRunning
             /\ UNCHANGED <<cards, num_decks, punto, banco, game_running>>]_vars

\* is_natural returned true for a natural eight of Banco.
C4_Witness ==
    /\ Succeeded("is_natural")
    /\ last.val = TRUE
    /\ ~game_running
    /\ HandValue(banco) = 8
    /\ HandValue(punto) < 8

\* C5, as claimed: is_natural returning true leaves the game closed and a
\* draw_thirds call made next fails with the error of the natural.
C5_Original ==
    [][(Succeeded("is_natural") /\ last.val = TRUE /\ last'.op = "draw_thirds")
        => ~game_running /\ last'.err = ErrNatural]_vars

\* C5, amended: is_natural returning true leaves the game closed and a
\* draw_thirds call made next fails with the "not running" error, drawing
\* nothing and changing no hand.
C5_NaturalThenThirds ==
    [][/\ (last'.op = "is_natural" /\ last'.err = "" /\ last'.val = TRUE)
            => ~game_running'
       /\ (Succeeded("is_natural") /\ last.val = TRUE /\ last'.op = "draw_thirds")
            => /\ ~game_running
               /\ last'.err = ErrNotRunning
               /\ UNCHANGED <<cards, num_decks, punto, banco, game_running>>]_vars

\* draw_thirds was refused as not running on a round a natural had closed.
C5_Witness ==
    /\ last.op = "draw_thirds"
    /\ last.err = ErrNotRunning
    /\ NaturalDealt(punto) \/ NaturalDealt(banco)

\* C6: draw_thirds called when no game is running (before the first deal or
\* after the round was resolved) fails with the "not running" error, draws
\* no card and changes no hand.
C6_ThirdsNeedRunning ==
    [][(~game_running /\ last'.op = "draw_thirds")
        => /\ last'.err = ErrNotRunning
           /\ UNCHANGED <<cards, num_decks, punto, banco, game_running>>]_vars

\* A second draw_thirds was refused on a round whose thirds had been drawn.
C6_Witness ==
    /\ last.op = "draw_thirds"
    /\ last.err = ErrNotRunning
    /\ Len(punto) = 3
    /\ Len(banco) = 3

\* The cards of a sequence, as a bag.
RECURSIVE SeqToBag(_)
SeqToBag(q) ==
    IF q = <<>> THEN EmptyBag ELSE SetToBag({Head(q)}) (+) SeqToBag(Tail(q))

\* C7: deal_hands fails with the "running" error iff a game is running, and
\* then changes nothing; otherwise it draws four cards, Punto gets the first
\* two drawn and Banco the next two, and the game is running.  With four
\* cards or more in the shoe these four cards are what leaves the shoe.
C7_DealHands ==
    [][last'.op = "deal_hands" =>
        IF game_running
        THEN /\ last'.err = ErrRunning
             /\ UNCHANGED <<cards, num_decks, punto, banco, game_running>>
        ELSE /\ last'.err = ""
             /\ Len(last'.drawn) = 4
             /\ punto' = SubSeq(last'.drawn, 1, 2)
             /\ banco' = SubSeq(last'.drawn, 3, 4)
             /\ game_running'
             /\ BagCardinality(cards) >= 4
                  => cards' (+) SeqToBag(last'.drawn) = cards]_vars

\* A deal that found two cards in the shoe: Punto took them and the shoe
\* was refilled for Banco.
C7_Witness ==
    /\ Succeeded("deal_hands")
    /\ game_running
    /\ BagCardinality(cards) = DeckSize - 2
    /\ HandValue(punto) # HandValue(banco)

\* C8: game_result fails with the "running" error while a game is running;
\* on a resolved round it returns punto, banco or tie by comparing the values
\* of the hands as they stand; it never changes hands, shoe or game state.
C8_GameResult ==
    [][last'.op = "game_result" =>
        /\ UNCHANGED <<cards, num_decks, punto, banco, game_running>>
        /\ IF game_running
           THEN last'.err = ErrResultRunning
           ELSE punto # None =>
                  /\ last'.err = ""
                  /\ last'.val =
                       IF HandValue(punto) > HandValue(banco) THEN "punto"
                       ELSE IF HandValue(punto) < HandValue(banco) THEN "banco"
                       ELSE "tie"]_vars

\* Banco won a round in which both hands drew a third card.
C8_Witness ==
    /\ Succeeded("game_result")
    /\ last.val = "banco"
    /\ Len(punto) = 3
    /\ Len(banco) = 3

\* C9: the two hands are both present or both absent, and when either holds
\* 3 cards no game is running.
C9_HandsTogether ==
    /\ (punto = None) <=> (banco = None)
    /\ (Len(punto) = 3 \/ Len(banco) = 3) => ~game_running

\* Banco alone drew a third card.
C9_Witness ==
    /\ Len(punto) = 2
    /\ Len(banco) = 3
    /\ ~game_running

\* The hand after a step is the hand before it, or that hand of two cards
\* with one card appended.
HandKept(before, after) ==
    \/ after = before
    \/ /\ Len(before) = 2
       /\ Len(after) = 3
       /\ SubSeq(after, 1, 2) = before

\* C10: a hand that exists holds 2 or 3 cards; between two deals its first
\* two cards never change, at most one card is appended to it and none is
\* removed.
C10_HandLifecycle ==
    /\ [](Len(punto) \in {0, 2, 3} /\ Len(banco) \in {0, 2, 3})
    /\ [][~(last'.op = "deal_hands" /\ last'.err = "")
            => HandKept(punto, punto') /\ HandKept(banco, banco')]_vars

\* Both hands took their third card.
C10_Witness ==
    /\ Succeeded("draw_thirds")
    /\ Len(punto) = 3
    /\ Len(banco) = 3

\* C11: draw_cards(n) returns exactly n cards and never fails.  With n cards
\* or more in the shoe it makes no refill and takes the last n cards of the
\* list, the last one first.  Otherwise it refills once for each time the
\* shoe runs empty with cards still to draw, only when the shoe is empty,
\* and the cards of the old list still come out last one first.
C11_DrawCards ==
    [][last'.op = "draw_cards" =>
        LET n == last'.arg
            d == last'.val
            refills == last'.refills
            had == Len(cards)
            deck == num_decks * ListDeckSize
        IN  /\ last'.err = ""
            /\ Len(d) = n
            /\ \A i \in 1..(IF n < had THEN n ELSE had) : d[i] = cards[had - i + 1]
            /\ n <= had => refills = <<>> /\ cards' = SubSeq(cards, 1, had - n)
            /\ n > had => Len(refills) = ((n - had - 1) \div deck) + 1
            /\ \A i \in 1..Len(refills) : refills[i].before = <<>>
            /\ Len(cards') = had + Len(refills) * deck - n]_vars

\* A draw that emptied the shoe twice.
C11_Witness ==
    /\ last.op = "draw_cards"
    /\ last.arg = MaxDraw
    /\ Len(last.refills) = 2
    /\ Len(last.val) = MaxDraw

\* The bag holds exactly k copies of each card of the deck and nothing else.
IsDecks(bag, k) ==
    /\ BagToSet(bag) = {OneDeck[i] : i \in 1..Len(OneDeck)}
    /\ \A c \in BagToSet(bag) : CopiesIn(c, bag) = k
    /\ BagCardinality(bag) = k * Len(OneDeck)

\* The deck add_decks builds has 52 cards, one for each pair of a rank and a
\* suit.
DeckOf52 ==
    /\ Len(FullDeck) = 52
    /\ \A i, j \in 1..Len(FullDeck) : FullDeck[i] = FullDeck[j] => i = j
    /\ {FullDeck[i] : i \in 1..Len(FullDeck)} =
           {Card(RANKS[r], SUITS[u]) : r \in 1..Len(RANKS), u \in 1..Len(SUITS)}

\* The shoe as it was right after the refill a draw_cards call made: the
\* cards left and the cards drawn since the refill.
AfterRefill == cards' (+) SeqToBag(SubSeq(last'.drawn, BagCardinality(cards) + 1,
                                          Len(last'.drawn)))

\* C12 as stated: a fresh shoe, and a shoe right after any refill, whether
\* draw_cards made it or add_decks was called, holds num_decks copies of
\* each card of the deck and nothing else.
C12_Original ==
    /\ [](last.op = "__init__" => IsDecks(cards, num_decks))
    /\ [][/\ last'.op = "add_decks" => IsDecks(cards', num_decks)
          /\ (last'.op = "draw_cards" /\ last'.refills > 0)
                => IsDecks(AfterRefill, num_decks)]_vars

\* C12, amended: a fresh shoe, and a shoe right after the refill draw_cards
\* makes on finding it empty, holds num_decks copies of each card of the
\* 52-card deck and nothing else; add_decks called with a count adds that
\* many copies of each card (the shoe's own count for None or 0, none for a
\* negative count) to the cards the shoe already holds.
C12_Refill ==
    /\ [](DeckOf52 /\ (last.op = "__init__" => IsDecks(cards, num_decks)))
    /\ [][/\ (last'.op = "draw_cards" /\ last'.refills > 0)
                => IsDecks(AfterRefill, num_decks)
          /\ last'.op = "add_decks" =>
                LET k == IF last'.arg = 0 THEN num_decks ELSE last'.arg
                IN  /\ \A c \in BagToSet(cards') :
                          CopiesIn(c, cards') =
                              CopiesIn(c, cards) + (IF k > 0 THEN k ELSE 0)
                    /\ BagToSet(cards) \subseteq BagToSet(cards')
                    /\ BagCardinality(cards') = BagCardinality(cards) +
                          (IF k > 0 THEN k * Len(OneDeck) ELSE 0)]_vars

\* A shoe of two decks refilled by draw_cards on finding it empty.
C12_Witness ==
    /\ last.op = "draw_cards"
    /\ last.refills = 1
    /\ num_decks = 2
    /\ BagCardinality(cards) = 2 * Len(OneDeck) - 1

\* What a card of the rank counts in a hand.
Points(rank) ==
    CASE rank = ACE -> 1
      [] rank \in 2..9 -> rank
      [] rank \in {10, JACK, QUEEN, KING} -> 0

\* The points of the cards of a hand, added up without any reduction.
RECURSIVE PointsSum(_)
PointsSum(hand) ==
    IF hand = <<>> THEN 0 ELSE Points(Head(hand).rank) + PointsSum(Tail(hand))

\* C13: the value of a hand of two or three cards is the sum of the points
\* of its cards modulo 10 (ace 1, 2..9 their rank, 10 and the court cards
\* 0), so it is in 0..9.
C13_HandValue ==
    last.op = "Hand.value" =>
        /\ last.val = PointsSum(punto) % 10
        /\ last.val \in 0..9

\* The value of a three-card hand whose points add up to 20 or more, so
\* that the sum passes 10 twice.
C13_Witness ==
    /\ last.op = "Hand.value"
    /\ Len(punto) = 3
    /\ PointsSum(punto) >= 20
    /\ last.val = PointsSum(punto) - 20

\* C14: Punto.draw_third() returns true exactly when the hand has two cards
\* and a value of 0..5; it returns false for the values 6, 7, 8, 9 and for
\* every hand of three cards.
C14_PuntoDrawThird ==
    last.op = "Punto.draw_third" =>
        /\ last.val \in BOOLEAN
        /\ last.val <=> (Len(punto) = 2 /\ PointsSum(punto) % 10 \in 0..5)
        /\ PointsSum(punto) % 10 \in 6..9 => last.val = FALSE
        /\ Len(punto) = 3 => last.val = FALSE

\* A three-card hand of value 0..5 that was asked and does not draw.
C14_Witness ==
    /\ last.op = "Punto.draw_third"
    /\ Len(punto) = 3
    /\ PointsSum(punto) % 10 \in 0..5
    /\ last.val = FALSE

\* C15: when Punto draws a third card that counts 8 and the two cards of
\* Banco count 3, draw_thirds draws no card for Banco: Banco keeps its two
\* cards and the list returned has the record of Punto only.
C15_NoBancoThirdOnEight ==
    [][(/\ last'.op = "draw_thirds"
        /\ Len(punto) = 2
        /\ Len(punto') = 3
        /\ Points(punto'[3].rank) = 8
        /\ Len(banco) = 2
        /\ PointsSum(banco) % 10 = 3)
       => /\ last'.err = ""
          /\ banco' = banco
          /\ Len(banco') = 2
          /\ Len(last'.val) = 1
          /\ \A i \in 1..Len(last'.val) : last'.val[i][1] # "banco"
          /\ Len(last'.drawn) = 1]_vars

\* Punto has drawn an eight against a Banco of 3.
C15_Witness ==
    /\ last.op = "draw_thirds"
    /\ last.err = ""
    /\ Len(punto) = 3
    /\ Points(punto[3].rank) = 8
    /\ Len(banco) = 2
    /\ PointsSum(banco) % 10 = 3

\* C16: cards move by transfer of ownership.  The shoe and the hands start
\* apart (the hands empty), and every step keeps them apart: each card that
\* deal_hands or draw_thirds draws leaves the shoe (which gains nothing but
\* the new cards of its own refills) and is added once to one hand, the
\* new hands of deal_hands holding the drawn cards and nothing else, so the
\* cards of the round before never come back to the shoe; no other step
\* moves a card of the shoe's or changes a hand.  Card objects of the same
\* rank and suit are counted, the count of each in a container standing for
\* that many objects.
C16_OwnershipTransfer ==
    /\ [](last.op = "__init__" => punto = None /\ banco = None)
    /\ [][LET drawn == last'.drawn
              deck == num_decks * Len(OneDeck)
              gained == BagCardinality(cards') + Len(drawn) - BagCardinality(cards)
              third == Len(punto') - Len(punto)
          IN  IF last'.op \in {"deal_hands", "draw_thirds"} /\ last'.err = ""
              THEN /\ gained \in {0, deck, 2 * deck}
                   /\ cards' (+) SeqToBag(drawn) =
                         cards (+) Decks((gained \div deck) * num_decks)
                   /\ last'.op = "deal_hands" =>
                         punto' \o banco' = drawn
                   /\ last'.op = "draw_thirds" =>
                        /\ third \in 0..Len(drawn)
                        /\ punto' = punto \o SubSeq(drawn, 1, third)
                        /\ banco' = banco \o SubSeq(drawn, third + 1, Len(drawn))
              ELSE /\ punto' = punto
                   /\ banco' = banco
                   /\ drawn = <<>>
                   /\ \/ cards' = cards
                      \/ /\ last'.op = "create_shoe"
                         /\ last'.err = ""
                         /\ cards' = Decks(num_decks')]_vars

\* A round dealt after rounds that drew third cards: the cards of those
\* rounds are out of play, four cards are in the hands, the rest of the
\* refilled shoe is in the shoe.
C16_Witness ==
    /\ last.op = "deal_hands"
    /\ last.err = ""
    /\ Len(last.drawn) = 4
    /\ SeqToBag(punto) (+) SeqToBag(banco) = SeqToBag(last.drawn)
    /\ BagCardinality(cards) = (3 * DeckSize - 10) % DeckSize

\* C17: create_shoe with a valid num_decks succeeds with no hands dealt, in
\* a running round and after a round: the shoe is then a fresh one of
\* num_decks decks, the game reports num_decks, and the hands and the
\* running flag are as before.  With an invalid num_decks it fails and the
\* shoe and the number of decks stay as they were.
C17_CreateShoe ==
    [][last'.op = "create_shoe" =>
        LET n == last'.arg
        IN  IF n.int /\ n.v >= 1
            THEN /\ last'.err = ""
                 /\ IsDecks(cards', n.v)
                 /\ num_decks' = n.v
                 /\ UNCHANGED <<punto, banco, game_running>>
            ELSE /\ last'.err = (IF n.int THEN ErrDecksValue ELSE ErrDecksType)
                 /\ UNCHANGED <<cards, num_decks, punto, banco, game_running>>]_vars

\* The shoe replaced by one of two decks in a running round.
C17_Witness ==
    /\ last.op = "create_shoe"
    /\ last.err = ""
    /\ last.arg.v = 2
    /\ game_running
    /\ Len(punto) = 2
    /\ Len(banco) = 2
    /\ IsDecks(cards, 2)

\* The state of the engine: the shoe with its number of decks, the hands
\* and the running flag.
engine == <<cards, num_decks, punto, banco, game_running>>

\* C19: a call of deal_hands, is_natural, draw_thirds or game_result that
\* fails leaves the shoe, the hands and the running flag as they were; so
\* does draw_thirds when it is rejected for a natural.
C19_FailedCallKeepsState ==
    [][(/\ last'.op \in {"deal_hands", "is_natural", "draw_thirds", "game_result"}
        /\ last'.err # "")
       => UNCHANGED engine]_vars

\* The errors the engine declares for a call in the wrong state.
StateErrors == {ErrRunning, ErrResultRunning, ErrNotRunning, ErrNatural, ErrNoHands}

\* C20: with no hands dealt yet, every call succeeds or fails with one of
\* the state errors (create_shoe with one of its argument errors):
\* game_result returns no outcome and fails with a state error, and the four
\* hand accessors fail with 'No hands were dealt.'.
C20_IdleCalls ==
    [][(punto = None /\ banco = None /\ ~game_running) =>
        /\ last'.err \in {""} \cup StateErrors \cup {ErrDecksType, ErrDecksValue}
        /\ last'.op = "game_result" => last'.err \in StateErrors
        /\ last'.op \in {"punto_value", "punto_cards", "banco_value", "banco_cards"}
              => last'.err = ErrNoHands]_vars

\* C18: once deal_hands has succeeded the bets are closed, and while they
\* are closed every bet fails with 'A player cannot make a bet after the
\* hands are dealt.' and every deal_hands fails with 'There are some bets on
\* table.', neither changing anything; the bets are opened again only by a
\* bet_result that succeeds and leaves no player with a valid bet.
C18_BetsClosed ==
    [][/\ (last'.op = "deal_hands" /\ last'.err = "") => ~bets_open'
       /\ (~bets_open /\ last'.op = "bet") =>
             /\ last'.err = ErrBetsClosed
             /\ UNCHANGED <<engine, table>>
       /\ (~bets_open /\ last'.op = "deal_hands") =>
             /\ last'.err = ErrBetsOnTable
             /\ UNCHANGED <<engine, table>>
       /\ (~bets_open /\ bets_open') =>
             /\ last'.op = "bet_result"
             /\ last'.err = ""
             /\ \A i \in 1..Len(players') : ~IsValidBet(players'[i])]_vars

\* A bet refused after the round, when the bet of one player has been
\* settled and the other player still holds a valid bet.
C18_Witness ==
    /\ last.op = "bet"
    /\ last.err = ErrBetsClosed
    /\ ~bets_open
    /\ ~game_running
    /\ Len(players) = 2
    /\ \E i, j \in 1..Len(players) :
          /\ IsValidBet(players[i])
          /\ players[j].balance # 1
          /\ ~IsValidBet(players[j])

\* A round has been dealt and resolved and no player holds a valid bet: the
\* bets of the round, if there were any, have all been settled.
RoundSettled ==
    /\ punto # None
    /\ ~game_running
    /\ \A i \in 1..Len(players) : ~IsValidBet(players[i])

\* C21: once a round dealt by deal_hands is resolved and every valid bet has
\* been settled by bet_result (there may have been none), the bets are open
\* and the next deal_hands succeeds.
C21_NextRound ==
    /\ [](RoundSettled => bets_open)
    /\ [][(RoundSettled /\ last'.op = "deal_hands") =>
            (last'.err = "" /\ game_running')]_vars

\* C22: bet_result settles a bet only against a round dealt after the bet
\* was placed.  Bets are placed only while the bets are open and deal_hands
\* closes them, so while the bets are open every valid bet is newer than the
\* last round dealt: a bet_result called then settles nothing.
C22_SettlesDealtBets ==
    [][(bets_open /\ last'.op = "bet_result") =>
        (last'.err # "" /\ players' = players)]_vars

\* C23: a bet that fails, whether for closed bets, an invalid hand, an
\* amount that is not positive or an amount above the balance, leaves the
\* hand_bet, the amount_bet and the balance of the player as they were, so
\* that a valid bet placed before is still the same bet.
C23_FailedBetKeepsBet ==
    [][(last'.op = "bet" /\ last'.err # "") =>
        LET i == last'.arg[1]
        IN  i \in 1..Len(players) =>
              /\ Len(players') = Len(players)
              /\ players'[i].hand_bet = players[i].hand_bet
              /\ players'[i].amount_bet = players[i].amount_bet
              /\ players'[i].balance = players[i].balance]_vars

====
